---- MODULE Spec2Model ----
(***************************************************************************)
(* Model of the gateway P2P wire message: src/gateway/libp2p/P2PMessage.h. *)
(*                                                                         *)
(* The header declares the constants, the envelope (P2PMessage), its       *)
(* options (P2PMessageOptions), the inline setters and flag helpers and    *)
(* the factory.  The bodies of P2PMessageOptions::encode/decode and of     *)
(* P2PMessage::decodeHeader/encode/decode are declared there (lines 75-76, *)
(* 152, 159-160) but defined in a translation unit that is not part of     *)
(* src/; those operators follow the component design of spec.md (4.1-4.3). *)
(*                                                                         *)
(* Three specifications share the variables:                               *)
(*   SpecCodec   one envelope value drawn from bounded sets, then          *)
(*               setLength / setRespPacket / encode / decode;              *)
(*   Spec        the object graph: envelopes, options and identity byte    *)
(*               strings behind shared pointers, built by the factory;     *)
(*   SpecStream  the per-connection read loop over a byte stream.          *)
(*                                                                         *)
(* Bytes are naturals 0..255.  TLC's integers are 32-bit signed, so every  *)
(* u32 value the model handles is below 2^31.                              *)
(***************************************************************************)
EXTENDS Integers, Sequences, FiniteSets, TLC

VARIABLES
    \* ---- SpecCodec ----
    msg,        \* the sender's envelope (a value: pointers dereferenced)
    before,     \* msg as it was before the last setRespPacket()
    respCalled, \* setRespPacket() has been called on msg
    buffer,     \* the bytes P2PMessage::encode produced
    encodeRet,  \* what P2PMessage::encode returned
    outbox,     \* frames handed to the connection for sending
    inbuf,      \* the byte range handed to P2PMessage::decode
    recv,       \* the receiving envelope (fresh from buildMessage, then decoded into)
    decodeRet,  \* what P2PMessage::decode returned
    pc,         \* "built" | "encoded" | "decoded"
    \* ---- Spec (object graph) ----
    msgs,       \* envelope objects, by id
    opts,       \* P2PMessageOptions objects, by id
    store,      \* identity byte strings (std::shared_ptr<bytes> targets), by address
    \* ---- SpecStream ----
    sent,       \* the envelopes whose frames make up the stream, in order
    stream,     \* the connection's byte stream
    arrived,    \* how many bytes of the stream the receive buffer holds
    offset,     \* where the current frame starts
    dispatched, \* envelopes delivered to the dispatcher, in order
    conn,       \* "AwaitingHeader" | "AwaitingBody" | "Error"
    polled      \* decode has already been tried on the bytes now buffered

codecVars  == <<msg, before, respCalled, buffer, encodeRet, outbox, inbuf, recv, decodeRet, pc>>
graphVars  == <<msgs, opts, store>>
streamVars == <<sent, stream, arrived, offset, dispatched, conn, polled>>
vars       == <<codecVars, graphVars, streamVars>>

----------------------------------------------------------------------------
(* Program constants *)

Heartbeat         == 1
PeerToPeerMessage == 5
BroadcastMessage  == 6

Response == 1

MESSAGE_ERROR == -1

\* Mutant: the two decode statuses confused.
MESSAGE_INCOMPLETE_Swapped == MESSAGE_ERROR

MESSAGE_INCOMPLETE == 0

\* Mutant: the minimum taken from the documented layout, 1 + 2 + 1.
OPTIONS_MIN_LENGTH_FromLayout == 1 + 2 + 1

OPTIONS_MIN_LENGTH == 5

MAX_NODEID_LENGTH == 65535

\* Mutant: the destination count checked against the wrong maximum.
MAX_DST_NODEID_COUNT_WrongLimit == MAX_NODEID_LENGTH

MAX_DST_NODEID_COUNT == 255

\* Mutant: the ext field counted as four bytes.
MESSAGE_HEADER_LENGTH_WideExt == 4 + 2 + 2 + 4 + 4

MESSAGE_HEADER_LENGTH == 14

----------------------------------------------------------------------------
(* Bounds of the model *)

\* The connection layer's configured maximum frame size (spec.md 4.3 step 2).
MaxFrameSize == 130
\* Identity byte strings drawn for SpecCodec have 0..MaxIdLen bytes.
MaxIdLen == 2
\* Destination lists drawn for SpecCodec have 0..MaxDst entries.
MaxDst == 2
\* Spec: at most MaxMsgs envelopes, MaxOpts options objects, MaxAddrs identity
\* byte strings are ever allocated.
MaxMsgs == 2
MaxOpts == 2
MaxAddrs == 3
\* SpecStream: a stream holds 1..MaxFrames frames and arrives in chunks of
\* 1..MaxChunk bytes (or all at once).
MaxFrames == 2
MaxChunk == 3

----------------------------------------------------------------------------
(* Bytes and big-endian integers *)

Min(a, b) == IF a < b THEN a ELSE b
Max(a, b) == IF a > b THEN a ELSE b

\* bytesConstRef::getCroppedData(off, n): n bytes from offset off (0-based),
\* clamped to the range.
Crop(b, off, n) ==
    LET from == Min(off, Len(b))
        to   == Min(off + Max(n, 0), Len(b))
    IN  [i \in 1..(to - from) |-> b[from + i]]

U16BE(n) == << (n \div 256) % 256, n % 256 >>
U32BE(n) == << (n \div 16777216) % 256, (n \div 65536) % 256, (n \div 256) % 256, n % 256 >>

ReadU16(b, off) == b[off + 1] * 256 + b[off + 2]
ReadU32(b, off) == b[off + 1] * 16777216 + b[off + 2] * 65536 + b[off + 3] * 256 + b[off + 4]

RECURSIVE BitOr(_, _, _)
BitOr(a, b, bits) ==
    IF bits = 0 THEN 0
    ELSE (IF a % 2 = 1 \/ b % 2 = 1 THEN 1 ELSE 0) + 2 * BitOr(a \div 2, b \div 2, bits - 1)

RECURSIVE BitAnd(_, _, _)
BitAnd(a, b, bits) ==
    IF bits = 0 THEN 0
    ELSE (IF a % 2 = 1 /\ b % 2 = 1 THEN 1 ELSE 0) + 2 * BitAnd(a \div 2, b \div 2, bits - 1)

\* The concatenation of ss[lo..hi] (split in halves: the lists may be long).
RECURSIVE FlattenRange(_, _, _)
FlattenRange(ss, lo, hi) ==
    IF lo > hi THEN <<>>
    ELSE IF lo = hi THEN ss[lo]
    ELSE LET mid == (lo + hi) \div 2
         IN  FlattenRange(ss, lo, mid) \o FlattenRange(ss, mid + 1, hi)

Flatten(ss) == FlattenRange(ss, 1, Len(ss))

----------------------------------------------------------------------------
(* Envelope and options values *)

\* P2PMessageOptions(): empty groupID, an empty source identity, no destinations.
NewOptions == [groupID |-> <<>>, srcNodeID |-> <<>>, dstNodeIDs |-> <<>>]

\* P2PMessage() with its member initialisers; buildMessage() returns one.
buildMessage ==
    [length |-> 0, version |-> 0, packetType |-> 0, seq |-> 0, ext |-> 0,
     options |-> NewOptions, payload |-> <<>>]

setLength(m, n) == [m EXCEPT !.length = n]

setRespPacket(m) == [m EXCEPT !.ext = BitOr(m.ext, Response, 16)]

isRespPacket(m) == BitAnd(m.ext, Response, 16) # 0

\* Mutant: BroadcastMessage forgotten.
hasOptions_OnlyPeerToPeer(m) == m.packetType = PeerToPeerMessage

\* Mutant: options written and read for every packet type.
hasOptions_Always(m) == m.packetType = m.packetType

hasOptions(m) ==
    (m.packetType = PeerToPeerMessage) \/ (m.packetType = BroadcastMessage)

----------------------------------------------------------------------------
(* Options codec (spec.md 4.2) *)

OptionsEncode(o) ==
    IF \/ Len(o.dstNodeIDs) > MAX_DST_NODEID_COUNT
       \/ \E i \in 1..Len(o.dstNodeIDs) : Len(o.dstNodeIDs[i]) # Len(o.srcNodeID)
    THEN [ok |-> FALSE, bytes |-> <<>>]
    ELSE [ok |-> TRUE,
          bytes |-> << Len(o.groupID) % 256 >> \o o.groupID
                    \o U16BE(Len(o.srcNodeID) % 65536) \o o.srcNodeID
                    \o << Len(o.dstNodeIDs) % 256 >> \o Flatten(o.dstNodeIDs)]

\* ret: the bytes consumed, or minus the number of bytes missing (a shortfall).
\* Fields are stored as they are read.
OptionsDecode(o, b) ==
    LET len == Len(b) IN
    IF len < OPTIONS_MIN_LENGTH
    THEN [ret |-> len - OPTIONS_MIN_LENGTH, options |-> o]
    ELSE
    LET gl   == b[1]
        off1 == 1 + gl
    IN
    IF off1 + 2 > len
    THEN [ret |-> len - (off1 + 2), options |-> o]
    ELSE
    LET o1   == [o EXCEPT !.groupID = Crop(b, 1, gl)]
        il   == ReadU16(b, off1)
        off2 == off1 + 2 + il
    IN
    IF off2 + 1 > len
    THEN [ret |-> len - (off2 + 1), options |-> o1]
    ELSE
    LET o2   == [o1 EXCEPT !.srcNodeID = Crop(b, off1 + 2, il)]
        cnt  == b[off2 + 1]
        off3 == off2 + 1 + cnt * il
    IN
    IF off3 > len
    THEN [ret |-> len - off3, options |-> o2]
    ELSE [ret |-> off3,
          options |-> [o2 EXCEPT !.dstNodeIDs =
                          [k \in 1..cnt |-> Crop(b, off2 + 1 + (k - 1) * il, il)]]]

----------------------------------------------------------------------------
(* Header codec and envelope codec (spec.md 4.1, 4.3) *)

decodeHeader(m, b) ==
    IF Len(b) < MESSAGE_HEADER_LENGTH
    THEN [ret |-> MESSAGE_INCOMPLETE, msg |-> m]
    ELSE [ret |-> MESSAGE_HEADER_LENGTH,
          msg |-> [m EXCEPT !.length     = ReadU32(b, 0),
                            !.version    = ReadU16(b, 4),
                            !.packetType = ReadU16(b, 6),
                            !.seq        = ReadU32(b, 8),
                            !.ext        = ReadU16(b, 12)]]

\* The envelope is not changed: the total length goes to the buffer only.
encode(m) ==
    LET o     == IF hasOptions(m) THEN OptionsEncode(m.options)
                 ELSE [ok |-> TRUE, bytes |-> <<>>]
        total == MESSAGE_HEADER_LENGTH + Len(o.bytes) + Len(m.payload)
    IN  IF ~o.ok
        THEN [ok |-> FALSE, bytes |-> <<>>]
        ELSE [ok |-> TRUE,
              bytes |-> U32BE(total) \o U16BE(m.version) \o U16BE(m.packetType)
                        \o U32BE(m.seq) \o U16BE(m.ext) \o o.bytes \o m.payload]

decode(m, b) ==
    LET h == decodeHeader(m, b) IN
    IF h.ret = MESSAGE_INCOMPLETE
    THEN [ret |-> MESSAGE_INCOMPLETE, msg |-> m]
    ELSE
    LET m1 == h.msg
        L  == m1.length
    IN
    IF L < MESSAGE_HEADER_LENGTH \/ L > MaxFrameSize
    THEN [ret |-> MESSAGE_ERROR, msg |-> m1]
    ELSE IF Len(b) < L
    THEN [ret |-> MESSAGE_INCOMPLETE, msg |-> m1]
    ELSE IF hasOptions(m1)
    THEN LET od == OptionsDecode(m1.options,
                                 Crop(b, MESSAGE_HEADER_LENGTH, L - MESSAGE_HEADER_LENGTH))
         IN  IF od.ret < 0
             THEN [ret |-> MESSAGE_ERROR, msg |-> [m1 EXCEPT !.options = od.options]]
             ELSE [ret |-> L,
                   msg |-> [m1 EXCEPT !.options = od.options,
                                      !.payload = Crop(b, MESSAGE_HEADER_LENGTH + od.ret,
                                                       L - MESSAGE_HEADER_LENGTH - od.ret)]]
    ELSE [ret |-> L,
          msg |-> [m1 EXCEPT !.payload = Crop(b, MESSAGE_HEADER_LENGTH,
                                               L - MESSAGE_HEADER_LENGTH)]]

----------------------------------------------------------------------------
(* SpecCodec: the inputs *)

Pattern(base, n) == [i \in 1..n |-> (base + i) % 256]

\* version, seq and ext together: all zero, or every byte different.
HeaderInputs ==
    { [version |-> 0, seq |-> 0, ext |-> 0],
      [version |-> 258, seq |-> 16909060, ext |-> 65534] }

TypeInputs == {Heartbeat, PeerToPeerMessage, BroadcastMessage}

GroupInputs == { <<>>, Pattern(102, 1) }

\* n destinations of il bytes each; entry `bad` (if any) has one byte more.
DstInput(il, n, bad) ==
    [k \in 1..n |-> Pattern(176 + 16 * k, IF k = bad THEN il + 1 ELSE il)]

OptionsInputs ==
    { [groupID |-> g, srcNodeID |-> Pattern(160, il), dstNodeIDs |-> DstInput(il, n, bad)] :
        g \in GroupInputs, il \in 0..MaxIdLen,
        n \in 0..MaxDst, bad \in 0..MaxDst }

\* n destinations, every one the empty identity.
ManyDst(n) ==
    [groupID |-> <<>>, srcNodeID |-> <<>>, dstNodeIDs |-> [k \in 1..n |-> <<>>]]

\* spec.md 8, scenario B: 6-byte groupID, 32-byte identities, two destinations.
ScenarioB ==
    [groupID |-> Pattern(102, 6), srcNodeID |-> Pattern(0, 32),
     dstNodeIDs |-> [k \in 1..2 |-> Pattern(64 * k, 32)]]

PayloadInputs == { <<>>, Pattern(80, 1) }

\* A payload one byte too long for any frame to fit the maximum frame size.
OversizePayload == Pattern(0, MaxFrameSize - MESSAGE_HEADER_LENGTH + 1)

Mk(h, t, o, p) ==
    [buildMessage EXCEPT !.version = h.version, !.packetType = t, !.seq = h.seq,
                         !.ext = h.ext, !.options = o, !.payload = p]

EnvelopeInputs ==
    { Mk(h, t, o, p) : h \in HeaderInputs, t \in TypeInputs,
                       o \in OptionsInputs, p \in PayloadInputs }
    \cup { Mk(h, PeerToPeerMessage, ManyDst(n), <<>>) :
             h \in HeaderInputs,
             n \in {255, 256} }
    \cup { Mk(h, t, ScenarioB, Pattern(80, 10)) :
             h \in HeaderInputs, t \in {Heartbeat, PeerToPeerMessage} }
    \cup { Mk(h, Heartbeat, NewOptions, OversizePayload) : h \in HeaderInputs }

LengthInputs == {999}

\* Declared lengths written over a frame's length field: below the header
\* length, inside the frame, just past it, and above the maximum frame size.
TamperInputs(b) ==
    {0, MESSAGE_HEADER_LENGTH - 1, Len(b) + 1, MaxFrameSize + 1, 2147483647}
    \cup { L \in MESSAGE_HEADER_LENGTH .. (MESSAGE_HEADER_LENGTH + 8) : L < Len(b) }

\* What may follow a frame in the receive buffer: nothing, or the next frame.
TrailInputs == { <<>>, encode(Mk([version |-> 1, seq |-> 7, ext |-> 0], Heartbeat,
                                 NewOptions, <<>>)).bytes }

----------------------------------------------------------------------------
(* SpecCodec: the state machine *)

GraphIdle  == msgs = <<>> /\ opts = <<>> /\ store = <<>>
StreamIdle ==
    /\ sent = <<>> /\ stream = <<>> /\ arrived = 0 /\ offset = 0
    /\ dispatched = <<>> /\ conn = "AwaitingHeader" /\ polled = TRUE

CodecIdle ==
    /\ msg = buildMessage /\ before = buildMessage /\ respCalled = FALSE
    /\ buffer = <<>> /\ encodeRet = FALSE /\ outbox = <<>> /\ inbuf = <<>>
    /\ recv = buildMessage /\ decodeRet = MESSAGE_INCOMPLETE /\ pc = "idle"

InitCodec ==
    /\ msg \in EnvelopeInputs
    /\ before = msg
    /\ respCalled = FALSE
    /\ buffer = <<>>
    /\ encodeRet = FALSE
    /\ outbox = <<>>
    /\ inbuf = <<>>
    /\ recv = buildMessage
    /\ decodeRet = MESSAGE_INCOMPLETE
    /\ pc = "built"
    /\ GraphIdle
    /\ StreamIdle

SetLength(n) ==
    /\ pc = "built"
    /\ ~respCalled
    /\ msg' = setLength(msg, n)
    /\ before' = msg'
    /\ UNCHANGED <<respCalled, buffer, encodeRet, outbox, inbuf, recv, decodeRet, pc>>
    /\ UNCHANGED <<graphVars, streamVars>>

SetRespPacket ==
    /\ pc = "built"
    /\ before' = msg
    /\ msg' = setRespPacket(msg)
    /\ respCalled' = TRUE
    /\ UNCHANGED <<buffer, encodeRet, outbox, inbuf, recv, decodeRet, pc>>
    /\ UNCHANGED <<graphVars, streamVars>>

\* The sender encodes msg and hands the frame to the connection only on success.
Encode ==
    /\ pc = "built"
    /\ LET r == encode(msg) IN
         /\ encodeRet' = r.ok
         /\ buffer' = r.bytes
         /\ outbox' = IF r.ok THEN Append(outbox, r.bytes) ELSE outbox
    /\ pc' = "encoded"
    /\ UNCHANGED <<msg, before, respCalled, inbuf, recv, decodeRet>>
    /\ UNCHANGED <<graphVars, streamVars>>

DecodeBytes(b) ==
    /\ inbuf' = b
    /\ LET r == decode(buildMessage, b) IN
         /\ decodeRet' = r.ret
         /\ recv' = r.msg
    /\ pc' = "decoded"
    /\ UNCHANGED <<msg, before, respCalled, buffer, encodeRet, outbox>>
    /\ UNCHANGED <<graphVars, streamVars>>

\* The receiver has the first k bytes of the frame.
DecodePrefix(k) ==
    /\ pc = "encoded"
    /\ encodeRet
    /\ k \in 0..Len(buffer)
    /\ DecodeBytes(Crop(buffer, 0, k))

\* The receiver has the frame with another declared length, and what follows it.
DecodeTampered(declared, trail) ==
    /\ pc = "encoded"
    /\ encodeRet
    /\ declared \in TamperInputs(buffer)
    /\ DecodeBytes(U32BE(declared) \o Crop(buffer, 4, Len(buffer) - 4) \o trail)

\* The receiver has the whole frame and the start of the next one.
DecodeWithTrail(trail) ==
    /\ pc = "encoded"
    /\ encodeRet
    /\ DecodeBytes(buffer \o trail)

NextCodec ==
    \/ \E n \in LengthInputs : SetLength(n)
    \/ SetRespPacket
    \/ Encode
    \/ \E k \in 0..(MaxFrameSize + 1) : DecodePrefix(k)
    \/ \E d \in TamperInputs(buffer), t \in TrailInputs : DecodeTampered(d, t)
    \/ \E t \in TrailInputs : DecodeWithTrail(t)

SpecCodec == InitCodec /\ [][NextCodec]_vars

----------------------------------------------------------------------------
(* SpecCodec: what the claims are stated over *)

\* The packet types that carry options, by number: 5 and 6 (spec.md 6).
CarriesOptions(t) == t \in {5, 6}

DstMismatch(o) == \E i \in 1..Len(o.dstNodeIDs) : Len(o.dstNodeIDs[i]) # Len(o.srcNodeID)

\* The whole frame, as encode produced it, was handed to decode.
WholeFrameDecoded == pc = "decoded" /\ inbuf = buffer

\* inbuf is a strict prefix of the frame encode produced.
StrictPrefixDecoded ==
    /\ pc = "decoded"
    /\ Len(inbuf) < Len(buffer)
    /\ inbuf = Crop(buffer, 0, Len(inbuf))

\* Whether the options block at offset 14 of b lies inside bytes [14, L),
\* read off the wire layout (spec.md 6); b holds at least L bytes.
OptionsFit(b, L) ==
    /\ L - 14 >= 5
    /\ LET gl == b[15] IN
       /\ 14 + 1 + gl + 2 <= L
       /\ LET il == ReadU16(b, 14 + 1 + gl) IN
          /\ 14 + 1 + gl + 2 + il + 1 <= L
          /\ LET cnt == b[14 + 1 + gl + 2 + il + 1] IN
             14 + 1 + gl + 2 + il + 1 + cnt * il <= L

\* C1: for every valid envelope (destinations of the source identity's
\* length, at most 255 of them, groupID of at most 255 bytes) encode succeeds,
\* and decode on exactly the produced bytes (a frame within the maximum frame
\* size) succeeds, consumes them all and yields the same version, packetType,
\* seq, extFlags, groupID, source identity, destination list and payload,
\* with the frame's length.
C1_RoundTrip ==
    (/\ pc # "built"
     /\ CarriesOptions(msg.packetType) =>
           /\ Len(msg.options.groupID) <= 255
           /\ Len(msg.options.dstNodeIDs) <= 255
           /\ ~DstMismatch(msg.options))
    => /\ encodeRet
       /\ (WholeFrameDecoded /\ Len(buffer) <= MaxFrameSize) =>
             /\ decodeRet = Len(buffer)
             /\ recv.length = Len(buffer)
             /\ recv.version = msg.version
             /\ recv.packetType = msg.packetType
             /\ recv.seq = msg.seq
             /\ recv.ext = msg.ext
             /\ CarriesOptions(msg.packetType) => recv.options = msg.options
             /\ recv.payload = msg.payload

\* C2: decode on a strict prefix (0 <= k < L bytes) of a valid encoded frame
\* of declared length L returns MESSAGE_INCOMPLETE (0): never MESSAGE_ERROR,
\* never a byte count.
C2_IncompleteMonotonicity ==
    (/\ StrictPrefixDecoded
     /\ encodeRet
     /\ ReadU32(buffer, 0) <= MaxFrameSize
     /\ Len(inbuf) < ReadU32(buffer, 0))
    => decodeRet = 0

\* C2 witness: a prefix that ends inside the options block was decoded.
C2_Witness ==
    /\ StrictPrefixDecoded
    /\ encodeRet
    /\ ReadU32(buffer, 0) <= MaxFrameSize
    /\ CarriesOptions(msg.packetType)
    /\ Len(msg.options.dstNodeIDs) = 2
    /\ Len(inbuf) > 14 + 5
    /\ Len(inbuf) < 14 + Len(OptionsEncode(msg.options).bytes)
    /\ decodeRet = 0

\* C3: with at least 14 bytes in the buffer and a declared length below 14 or
\* above the maximum frame size, decode returns MESSAGE_ERROR (-1), however
\* many bytes the buffer holds.
C3_DeclaredLengthBound ==
    (/\ pc = "decoded"
     /\ Len(inbuf) >= 14
     /\ \/ ReadU32(inbuf, 0) < 14
        \/ ReadU32(inbuf, 0) > MaxFrameSize)
    => decodeRet = -1

\* C3 witness: an oversized declared length with fewer bytes buffered than
\* declared, where waiting for the body would have been the other answer.
C3_Witness ==
    /\ pc = "decoded"
    /\ Len(inbuf) > 14
    /\ ReadU32(inbuf, 0) > MaxFrameSize
    /\ Len(inbuf) < ReadU32(inbuf, 0)
    /\ decodeRet = -1

C5_EncodeFailsOnLengthMismatch ==
    pc # "built" =>
       /\ (CarriesOptions(msg.packetType) /\ DstMismatch(msg.options)) =>
             /\ ~OptionsEncode(msg.options).ok
             /\ ~encodeRet
             /\ outbox = <<>>
       /\ ~encodeRet =>
             /\ CarriesOptions(msg.packetType)
             /\ ~OptionsEncode(msg.options).ok
       /\ ~CarriesOptions(msg.packetType) => encodeRet
       /\ outbox = IF encodeRet THEN <<buffer>> ELSE <<>>

\* C5 witness: an envelope whose second destination is one byte longer than
\* the source identity was encoded, and encode failed.
C5_Witness ==
    /\ pc = "encoded"
    /\ msg.packetType = 6
    /\ Len(msg.options.dstNodeIDs) = 2
    /\ Len(msg.options.dstNodeIDs[1]) = Len(msg.options.srcNodeID)
    /\ Len(msg.options.dstNodeIDs[2]) = Len(msg.options.srcNodeID) + 1
    /\ ~encodeRet

C7_ResponseFlagIsolation ==
    /\ isRespPacket(msg) <=> (msg.ext % 2 = 1)
    /\ respCalled =>
          /\ msg.ext % 2 = 1
          /\ msg.ext \div 2 = before.ext \div 2
          /\ msg = [before EXCEPT !.ext = msg.ext]
          /\ isRespPacket(msg)
          /\ setRespPacket(msg) = msg
          /\ (WholeFrameDecoded /\ Len(buffer) <= MaxFrameSize) =>
                /\ isRespPacket(recv)
                /\ recv.version = msg.version
                /\ recv.packetType = msg.packetType
                /\ recv.seq = msg.seq
                /\ recv.ext = msg.ext
                /\ CarriesOptions(msg.packetType) => recv.options = msg.options
                /\ recv.payload = msg.payload

\* The part of C7 about setRespPacket()/isRespPacket() alone.
SetRespPacketIsolation ==
    /\ isRespPacket(msg) <=> (msg.ext % 2 = 1)
    /\ respCalled =>
          /\ msg.ext % 2 = 1
          /\ msg.ext \div 2 = before.ext \div 2
          /\ msg = [before EXCEPT !.ext = msg.ext]
          /\ isRespPacket(msg)
          /\ setRespPacket(msg) = msg
          /\ pc = "decoded" /\ Len(inbuf) >= 14 => isRespPacket(recv)

\* C8: for every envelope that encodes, the length field written equals the
\* number of bytes produced: 14 + |payload| for a type without options, and
\* 14 + (1 + |groupID|) + (2 + |src|) + (1 + destCount * |src|) + |payload|
\* for PeerToPeerMessage/BroadcastMessage; the options block is written
\* exactly for those two types; the value given to setLength plays no part.
\* An empty Heartbeat makes 14 bytes, scenario B makes 130.
C8_DeclaredLengthOnEncode ==
    (pc # "built" /\ encodeRet) =>
       /\ ReadU32(buffer, 0) = Len(buffer)
       /\ Len(buffer) =
             IF CarriesOptions(msg.packetType)
             THEN 14 + (1 + Len(msg.options.groupID)) + (2 + Len(msg.options.srcNodeID))
                     + (1 + Len(msg.options.dstNodeIDs) * Len(msg.options.srcNodeID))
                     + Len(msg.payload)
             ELSE 14 + Len(msg.payload)
       /\ Crop(buffer, 14, Len(buffer)) =
             (IF CarriesOptions(msg.packetType)
              THEN << Len(msg.options.groupID) >> \o msg.options.groupID
                      \o << 0, Len(msg.options.srcNodeID) >> \o msg.options.srcNodeID
                      \o << Len(msg.options.dstNodeIDs) >> \o Flatten(msg.options.dstNodeIDs)
              ELSE <<>>) \o msg.payload
       /\ (msg.packetType = 1 /\ msg.payload = <<>>) => Len(buffer) = 14
       /\ (msg.packetType = 5 /\ msg.options = ScenarioB /\ Len(msg.payload) = 10)
             => Len(buffer) = 130

\* C8 witness: scenario B, after setLength(999), encoded to 130 bytes.
C8_Witness ==
    /\ pc = "encoded"
    /\ encodeRet
    /\ msg.packetType = 5
    /\ msg.options = ScenarioB
    /\ Len(msg.payload) = 10
    /\ msg.length = 999
    /\ Len(buffer) = 130

----------------------------------------------------------------------------
(* Spec: the object graph behind the shared pointers *)

\* Identity byte strings a caller may allocate or write.
IdentityInputs == { <<170>> }

\* The identity byte strings options object o points to.
Cells(o) ==
    {opts[o].srcNodeID} \cup {opts[o].dstNodeIDs[k] : k \in 1..Len(opts[o].dstNodeIDs)}

\* Envelope i as a value: its options and their identities dereferenced.
View(i) ==
    LET o == opts[msgs[i].options] IN
    [msgs[i] EXCEPT !.options =
        [groupID |-> o.groupID,
         srcNodeID |-> store[o.srcNodeID],
         dstNodeIDs |-> [k \in 1..Len(o.dstNodeIDs) |-> store[o.dstNodeIDs[k]]]]]

Init ==
    /\ msgs = <<>>
    /\ opts = <<>>
    /\ store = <<>>
    /\ CodecIdle
    /\ StreamIdle

\* std::make_shared<P2PMessageOptions>(): the constructor allocates an empty
\* source identity.
MakeOptions ==
    /\ Len(opts) < MaxOpts
    /\ Len(store) < MaxAddrs
    /\ store' = Append(store, <<>>)
    /\ opts' = Append(opts, [groupID |-> <<>>, srcNodeID |-> Len(store) + 1,
                             dstNodeIDs |-> <<>>])
    /\ UNCHANGED <<msgs, codecVars, streamVars>>

\* P2PMessageFactory::buildMessage(): a P2PMessage with its own new options.
BuildMessage ==
    /\ Len(msgs) < MaxMsgs
    /\ Len(opts) < MaxOpts
    /\ Len(store) < MaxAddrs
    /\ store' = Append(store, <<>>)
    /\ opts' = Append(opts, [groupID |-> <<>>, srcNodeID |-> Len(store) + 1,
                             dstNodeIDs |-> <<>>])
    /\ msgs' = Append(msgs, [length |-> 0, version |-> 0, packetType |-> 0, seq |-> 0,
                             ext |-> 0, options |-> Len(opts) + 1, payload |-> <<>>])
    /\ UNCHANGED <<codecVars, streamVars>>

\* A caller allocates an identity: std::make_shared<bytes>(b).
MakeBytes(b) ==
    /\ Len(store) < MaxAddrs
    /\ store' = Append(store, b)
    /\ UNCHANGED <<msgs, opts, codecVars, streamVars>>

SetPacketType(i, t) ==
    /\ i \in 1..Len(msgs)
    /\ msgs' = [msgs EXCEPT ![i].packetType = t]
    /\ UNCHANGED <<opts, store, codecVars, streamVars>>

\* setOptions stores the pointer it is given.
SetOptions(i, o) ==
    /\ i \in 1..Len(msgs)
    /\ o \in 1..Len(opts)
    /\ msgs' = [msgs EXCEPT ![i].options = o]
    /\ UNCHANGED <<opts, store, codecVars, streamVars>>

\* setSrcNodeID stores the pointer it is given.
SetSrcNodeID(o, a) ==
    /\ o \in 1..Len(opts)
    /\ a \in 1..Len(store)
    /\ opts' = [opts EXCEPT ![o].srcNodeID = a]
    /\ UNCHANGED <<msgs, store, codecVars, streamVars>>

\* setDstNodeIDs copies the vector of pointers, not the bytes behind them.
SetDstNodeIDs(o, list) ==
    /\ o \in 1..Len(opts)
    /\ \A k \in 1..Len(list) : list[k] \in 1..Len(store)
    /\ opts' = [opts EXCEPT ![o].dstNodeIDs = list]
    /\ UNCHANGED <<msgs, store, codecVars, streamVars>>

\* A write through a pointer obtained from srcNodeID() or dstNodeIDs() of the
\* options of envelope i.
WriteIdentity(i, a, b) ==
    /\ i \in 1..Len(msgs)
    /\ a \in Cells(msgs[i].options)
    /\ store' = [store EXCEPT ![a] = b]
    /\ UNCHANGED <<msgs, opts, codecVars, streamVars>>

\* Envelope i decodes the frame envelope j encodes to.  The options decoded
\* keep their object; the source identity read from the buffer is a new
\* byte string, and so is each destination.
DecodeFrom(i, j) ==
    /\ i \in 1..Len(msgs)
    /\ j \in 1..Len(msgs)
    /\ LET e == encode(View(j))
           r == decode(View(i), e.bytes)
           n == Len(r.msg.options.dstNodeIDs)
           o == msgs[i].options
       IN  /\ e.ok
           /\ r.ret > 0
           /\ hasOptions(r.msg)
           /\ Len(store) + 1 + n <= MaxAddrs
           /\ store' = store \o <<r.msg.options.srcNodeID>> \o r.msg.options.dstNodeIDs
           /\ opts' = [opts EXCEPT ![o] =
                         [groupID |-> r.msg.options.groupID,
                          srcNodeID |-> Len(store) + 1,
                          dstNodeIDs |-> [k \in 1..n |-> Len(store) + 1 + k]]]
           /\ msgs' = [msgs EXCEPT ![i] = [r.msg EXCEPT !.options = o]]
    /\ UNCHANGED <<codecVars, streamVars>>

\* Lists of at most one pointer.
DstListInputs == { <<>> } \cup { <<a>> : a \in 1..MaxAddrs }

Next ==
    \/ MakeOptions
    \/ BuildMessage
    \/ \E b \in IdentityInputs : MakeBytes(b)
    \/ \E i \in 1..MaxMsgs, t \in {Heartbeat, PeerToPeerMessage} : SetPacketType(i, t)
    \/ \E i \in 1..MaxMsgs, o \in 1..MaxOpts : SetOptions(i, o)
    \/ \E o \in 1..MaxOpts, a \in 1..MaxAddrs : SetSrcNodeID(o, a)
    \/ \E o \in 1..MaxOpts, list \in DstListInputs : SetDstNodeIDs(o, list)
    \/ \E i \in 1..MaxMsgs, a \in 1..MaxAddrs, b \in IdentityInputs : WriteIdentity(i, a, b)
    \/ \E i \in 1..MaxMsgs, j \in 1..MaxMsgs : DecodeFrom(i, j)

Spec == Init /\ [][Next]_vars

\* C9: each envelope exclusively owns its Options and each Options
\* exclusively owns its identity byte strings: no two envelopes share an
\* Options object, and no identity byte string is reachable from two
\* envelopes.
C9_OptionsOwnership ==
    \A i, j \in 1..Len(msgs) :
        i # j => /\ msgs[i].options # msgs[j].options
                 /\ Cells(msgs[i].options) \cap Cells(msgs[j].options) = {}

\* The second half of C9 as a step property: a write to an identity reached
\* from envelope i leaves what every other envelope encodes unchanged.
WriteLeavesOtherEncodingsAlone ==
    [][\A i \in 1..Len(msgs), a \in 1..Len(store), b \in IdentityInputs :
          WriteIdentity(i, a, b) =>
             \A j \in 1..Len(msgs) : j # i => encode(View(j))' = encode(View(j))]_vars

----------------------------------------------------------------------------
(* SpecStream: the connection's read loop (spec.md 4.3, 5, 7) *)

\* The envelopes a peer sends: an empty Heartbeat, a Heartbeat with payload,
\* a BroadcastMessage with group, source, one destination and payload, and a
\* PeerToPeerMessage as the factory builds it (nothing set but the type).
StreamEnvelopes ==
    { Mk([version |-> 1, seq |-> 7, ext |-> 0], Heartbeat, NewOptions, <<>>),
      Mk([version |-> 1, seq |-> 8, ext |-> 1], Heartbeat, NewOptions, Pattern(80, 2)),
      Mk([version |-> 1, seq |-> 9, ext |-> 0], BroadcastMessage,
         [groupID |-> Pattern(102, 1), srcNodeID |-> Pattern(160, 1),
          dstNodeIDs |-> <<Pattern(192, 1)>>], Pattern(80, 1)),
      Mk([version |-> 0, seq |-> 0, ext |-> 0], PeerToPeerMessage, NewOptions, <<>>) }

\* What a misbehaving peer may send after the frames: nothing, or 14 bytes
\* declaring a length of 3.
GarbageInputs == { <<>>, U32BE(3) \o Pattern(0, 10) }

RECURSIVE SeqsUpTo(_, _)
SeqsUpTo(S, n) ==
    IF n = 0 THEN { <<>> }
    ELSE LET shorter == SeqsUpTo(S, n - 1)
         IN  shorter \cup { Append(q, x) : q \in shorter, x \in S }

\* The frames of the envelopes es, one after the other.
Frames(es) == Flatten([i \in 1..Len(es) |-> encode(es[i]).bytes])

\* The stream is made of the frames of `sent` and nothing else.
ValidStream == stream = Frames(sent)

InitStream ==
    /\ sent \in SeqsUpTo(StreamEnvelopes, MaxFrames) \ { <<>> }
    /\ \E g \in GarbageInputs : stream = Frames(sent) \o g
    /\ arrived = 0
    /\ offset = 0
    /\ dispatched = <<>>
    /\ conn = "AwaitingHeader"
    /\ polled = TRUE
    /\ CodecIdle
    /\ GraphIdle

\* n more bytes of the stream reach the receive buffer.
Arrive(n) ==
    /\ conn # "Error"
    /\ arrived < Len(stream)
    /\ arrived' = Min(arrived + n, Len(stream))
    /\ polled' = FALSE
    /\ UNCHANGED <<sent, stream, offset, dispatched, conn>>
    /\ UNCHANGED <<codecVars, graphVars>>

\* decode on a fresh envelope, from the current frame's start.
Attempt == decode(buildMessage, Crop(stream, offset, arrived - offset))

\* decode returned a byte count: the envelope goes to the dispatcher and the
\* next frame starts after it.
Dispatch ==
    /\ conn # "Error"
    /\ ~polled
    /\ Attempt.ret > 0
    /\ dispatched' = Append(dispatched, Attempt.msg)
    /\ offset' = offset + Attempt.ret
    /\ conn' = "AwaitingHeader"
    /\ UNCHANGED <<sent, stream, arrived, polled>>
    /\ UNCHANGED <<codecVars, graphVars>>

\* decode returned MESSAGE_INCOMPLETE: the loop waits for more bytes.
Wait ==
    /\ conn # "Error"
    /\ ~polled
    /\ Attempt.ret = MESSAGE_INCOMPLETE
    /\ conn' = IF arrived - offset >= MESSAGE_HEADER_LENGTH
               THEN "AwaitingBody" ELSE "AwaitingHeader"
    /\ polled' = TRUE
    /\ UNCHANGED <<sent, stream, arrived, offset, dispatched>>
    /\ UNCHANGED <<codecVars, graphVars>>

\* decode returned MESSAGE_ERROR: the connection is closed.
Fail ==
    /\ conn # "Error"
    /\ ~polled
    /\ Attempt.ret = MESSAGE_ERROR
    /\ conn' = "Error"
    /\ polled' = TRUE
    /\ UNCHANGED <<sent, stream, arrived, offset, dispatched>>
    /\ UNCHANGED <<codecVars, graphVars>>

ReadStep == Dispatch \/ Wait \/ Fail

NextStream ==
    \/ \E n \in (1..MaxChunk) \cup {MaxFrames * MaxFrameSize} : Arrive(n)
    \/ Dispatch
    \/ Wait
    \/ Fail

\* The read loop runs whenever bytes are buffered that it has not looked at.
SpecStream == InitStream /\ [][NextStream]_vars /\ WF_vars(ReadStep)

\* The first n envelopes of `sent`, each with the length its frame declares.
Delivered(n) ==
    [i \in 1..n |-> setLength(sent[i], Len(encode(sent[i]).bytes))]

\* Where frame n + 1 starts in the stream.
FrameStart(n) == Len(Frames(SubSeq(sent, 1, n)))

\* C10: on a stream made of valid encoded frames f1..fn, arriving in chunks
\* of any size, the read loop never fails, every decode that succeeds
\* consumes exactly one frame's declared length, the dispatcher has received
\* f1..fk in order (nothing duplicated, skipped or merged), and once all the
\* bytes have arrived and the loop has looked at them every frame has been
\* dispatched.
C10_ChunkingIndependentFraming ==
    ValidStream =>
       /\ conn # "Error"
       /\ Len(dispatched) <= Len(sent)
       /\ dispatched = Delivered(Len(dispatched))
       /\ offset = FrameStart(Len(dispatched))
       /\ (arrived = Len(stream) /\ polled) => dispatched = Delivered(Len(sent))

\* The PeerToPeerMessage/BroadcastMessage frames whose options and payload
\* together are shorter than OPTIONS_MIN_LENGTH: empty groupID, empty
\* identities, empty payload.
ShortOptionsFrame(m) ==
    /\ CarriesOptions(m.packetType)
    /\ encode(m).ok
    /\ Len(encode(m).bytes) - 14 < 5

\* C10 on the streams that hold no such frame.
FramingWithoutShortOptions ==
    (ValidStream /\ \A i \in 1..Len(sent) : ~ShortOptionsFrame(sent[i])) =>
       /\ conn # "Error"
       /\ Len(dispatched) <= Len(sent)
       /\ dispatched = Delivered(Len(dispatched))
       /\ offset = FrameStart(Len(dispatched))
       /\ (arrived = Len(stream) /\ polled) => dispatched = Delivered(Len(sent))

\* C1 and C7 on the envelopes that make no such frame.
RoundTripWithoutShortOptions ==
    ~ShortOptionsFrame(msg) => (C1_RoundTrip /\ C7_ResponseFlagIsolation)

====
